---- MODULE Spec2Model ----
(***************************************************************************)
(* Model of the XLA:CPU runtime excerpt:                                   *)
(*   - BufferInfo (cpu_function_runtime.h): the two-word buffer           *)
(*     descriptor, its factories, Encode and the decoding constructor;    *)
(*   - Kernel::Launch (kernel.cc): the synchronous grid loop, the         *)
(*     single-task short circuit and the parallel fan-out through         *)
(*     Worker::Parallelize.                                                *)
(* A uint64_t is modelled at its full width as the set of the positions   *)
(* of its one bits (a subset of 0..63).                                    *)
(***************************************************************************)
EXTENDS Integers, Sequences, FiniteSets, TLC

\* ------------------------------------------------------------------------
\* 64-bit words
\* ------------------------------------------------------------------------
WordBits == 0..63

Shl(w, n) == {i + n : i \in {j \in w : j + n <= 63}}

Shr(w, n) == {i - n : i \in {j \in w : j >= n}}

BitOr(a, b) == a \cup b

BitNot(a) == WordBits \ a

\* carry into bit i of a + b: some lower bit generates a carry and every bit
\* between propagates it
Carry(a, b, i) ==
  \E j \in 0..(i - 1) :
    /\ j \in a
    /\ j \in b
    /\ \A k \in (j + 1)..(i - 1) : k \in a \/ k \in b

\* a + b modulo 2^64
Add64(a, b) ==
  IF a = {} THEN b
  ELSE IF b = {} THEN a
  ELSE {i \in WordBits : ((i \in a) # (i \in b)) # Carry(a, b, i)}

\* two's complement negation modulo 2^64
Neg64(a) == Add64(BitNot(a), {0})

FromNat(n) == {i \in 0..30 : (n \div (2 ^ i)) % 2 = 1}

RECURSIVE SumBits(_)
SumBits(S) ==
  IF S = {} THEN 0
  ELSE LET i == CHOOSE j \in S : TRUE IN (2 ^ i) + SumBits(S \ {i})

ToNat(w) == SumBits(w)

\* a + b modulo 2^width, by ripple carry
AddBits(a, b, width) ==
  LET carry[i \in 0..width] ==
        IF i = 0 THEN FALSE
        ELSE \/ (i - 1) \in a /\ (i - 1) \in b
             \/ ((i - 1) \in a \/ (i - 1) \in b) /\ carry[i - 1]
  IN  {i \in 0..(width - 1) : ((i \in a) # (i \in b)) # carry[i]}

\* a * b modulo 2^width, by shift and add over the one bits of b
RECURSIVE MulBits(_, _, _)
MulBits(a, b, width) ==
  IF b = {} THEN {}
  ELSE LET i == CHOOSE j \in b : TRUE
       IN  AddBits({k + i : k \in {j \in a : j + i < width}},
                   MulBits(a, b \ {i}, width), width)

\* uint64_t (size_t) multiplication
Mul64(a, b) == MulBits(a, b, 64)

\* ------------------------------------------------------------------------
\* BufferInfo
\* ------------------------------------------------------------------------
kConstant == 0
kTempBuffer == 1
kEntryParameter == 2
kOnStackBuffer == 3

\* uint64_t -> int64_t, the value as sign and magnitude
ToInt64(u) ==
  IF 63 \in u THEN [neg |-> TRUE, mag |-> Neg64(u)]
  ELSE [neg |-> FALSE, mag |-> u]

\* int64_t -> uint64_t
ToUint64(s) == IF s.neg THEN Neg64(s.mag) ELSE s.mag

\* bit-field stores: Kind kind_ : 2, uint64_t size_ : 62
StoreKind(kind) == kind % 4

StoreSize61(size) == size \cap (0..60)

StoreSize(size) == size \cap (0..61)

NewBufferInfo(kind, size, entry_param_number) ==
  [kind_ |-> StoreKind(kind),
   size_ |-> StoreSize(size),
   entry_param_number_ |-> ToInt64(entry_param_number)]

PackShift3(kind, size) == BitOr(Shl(size, 3), FromNat(kind))

Pack(kind, size) == BitOr(Shl(size, 2), FromNat(kind))

UnpackSizeShift3(packed) == Shr(packed, 3)

UnpackSize(packed) == Shr(packed, 2)

UnpackKindOneBit(packed) == ToNat(Shr(Shl(packed, 63), 63))

UnpackKind(packed) == ToNat(Shr(Shl(packed, 62), 62))

BufferInfoFromEncoding(encoding) ==
  [kind_ |-> StoreKind(UnpackKind(encoding[1])),
   size_ |-> StoreSize(UnpackSize(encoding[1])),
   entry_param_number_ |-> ToInt64(encoding[2])]

kind(b) == b.kind_

size(b) == b.size_

is_constant(b) == kind(b) = kConstant

is_entry_parameter(b) == kind(b) = kEntryParameter

is_temp_bufferWrongKind(b) == kind(b) = kConstant

is_temp_buffer(b) == kind(b) = kTempBuffer

is_on_stack_buffer(b) == kind(b) = kOnStackBuffer

entry_parameter_number(b) == ToUint64(b.entry_param_number_)

Encode(b) == <<Pack(kind(b), b.size_), ToUint64(b.entry_param_number_)>>

EqualsAlwaysParam(a, b) ==
  IF kind(a) # kind(b) \/ size(a) # size(b) THEN FALSE
  ELSE entry_parameter_number(a) = entry_parameter_number(b)

Equals(a, b) ==
  IF kind(a) # kind(b) \/ size(a) # size(b) THEN FALSE
  ELSE ~is_entry_parameter(a)
       \/ entry_parameter_number(a) = entry_parameter_number(b)

MakeTempBuffer(sz) == NewBufferInfo(kTempBuffer, sz, WordBits)

MakeConstant(sz) == NewBufferInfo(kConstant, sz, WordBits)

MakeEntryParameter(sz, param_number) ==
  NewBufferInfo(kEntryParameter, sz, param_number)

MakeOnStackBuffer(sz) == NewBufferInfo(kOnStackBuffer, sz, WordBits)


\* ------------------------------------------------------------------------
\* AlignedBufferBytes, MallocContiguousBuffers
\* ------------------------------------------------------------------------
MinAlign == 16

\* inline constexpr size_t Align() { return 64; }
Align == 64

Null == 0

\* size rounded up to a multiple of the alignment
AlignUp(n, a) == ((n + a - 1) \div a) * a

\* temp buffers always, entry parameters when asked for
ShouldAllocate(b, allocate_entry_params) ==
  is_temp_buffer(b) \/ (is_entry_parameter(b) /\ allocate_entry_params)

RECURSIVE AlignedBufferBytes(_, _)
AlignedBufferBytes(buffer_infos, allocate_entry_params) ==
  IF buffer_infos = <<>> THEN 0
  ELSE (IF ShouldAllocate(Head(buffer_infos), allocate_entry_params)
        THEN AlignUp(ToNat(size(Head(buffer_infos))), Align) ELSE 0)
       + AlignedBufferBytes(Tail(buffer_infos), allocate_entry_params)

\* the walk over the descriptors: an eligible one gets the running
\* position, which then advances by its aligned size; the others get null
RECURSIVE Carve(_, _, _)
Carve(buffer_infos, allocate_entry_params, pos) ==
  IF buffer_infos = <<>> THEN <<>>
  ELSE IF ShouldAllocate(Head(buffer_infos), allocate_entry_params)
       THEN <<pos>> \o Carve(Tail(buffer_infos), allocate_entry_params,
                             pos + AlignUp(ToNat(size(Head(buffer_infos))),
                                           Align))
       ELSE <<Null>> \o Carve(Tail(buffer_infos), allocate_entry_params, pos)

\* one block of AlignedBufferBytes bytes at head, carved into bufs
MallocContiguousBuffers(buffer_infos, allocate_entry_params, head) ==
  [bytes |-> AlignedBufferBytes(buffer_infos, allocate_entry_params),
   head |-> head,
   bufs |-> Carve(buffer_infos, allocate_entry_params, head)]

\* ------------------------------------------------------------------------
\* Bounds of the model
\* ------------------------------------------------------------------------
MaxDim == 3
MaxTasks == 4
MaxThreads == 2

\* sizes and parameter numbers handed to the factories
SizeInputs ==
  {{}, {0}, {1}, {0, 1}, {6}, {0, 61}, {61}, 0..61, {62}, {0, 63}, 0..63}

ParamInputs == {{}, {0}, {1}, {63}, 0..62, 0..63}

\* encoded words handed to the decoding constructor for a comparison
CompareSizes == {{}, {0}, 0..61}

CompareFirstWords == {Pack(k, sz) : k \in 0..3, sz \in CompareSizes}

CompareSecondWords == {{}, {0}, {63}, 0..63}

\* largest grid of the parallel tasks whose Delinearize is called
MaxGridX == 3
MaxGridY == 4
MaxGridZ == 5

\* longest descriptor list handed to the allocator
MaxBuffers == 3

\* descriptors the lists are made of
AllocInputs ==
  {MakeTempBuffer(FromNat(n)) : n \in {0, 1, 10, 64, 70}}
    \cup {MakeConstant(FromNat(n)) : n \in {1, 1000}}
    \cup {MakeEntryParameter(FromNat(10), {}),
          MakeEntryParameter(FromNat(65), {0})}
    \cup {MakeOnStackBuffer(FromNat(1000))}

\* addresses at which the block can be allocated
HeadInputs == {64, 4096}

\* argument lists handed to Launch: (data, size) pairs
ArgLists == {<<>>, <<<<"buf0", 8>>, <<"buf1", 16>>>>}

\* largest task count of the launches that are given a buffer list
MaxBufferTasks == 2

\* buffer lists handed to the Launch overloads that take DeviceMemoryBase
BufferLists ==
  {<<[opaque |-> "buf2", size |-> 32], [opaque |-> "buf3", size |-> 4]>>}

\* ------------------------------------------------------------------------
\* State
\* ------------------------------------------------------------------------
VARIABLES
  pc,               \* position of the thread that calls Launch
  withPool,         \* TRUE when Launch was called with a ThreadPoolDevice
  thread_dims,      \* <<x, y, z>> passed to Launch
  args,             \* argument list passed to Launch
  buffers,          \* buffer list, when Launch was called with buffers
  numThreadsInPool, \* device->numThreadsInPool()
  cur,              \* loop variables <<x, y, z>> of the synchronous Launch
  calls,            \* call frames handed to the kernel, in invocation order
  completed,        \* coordinates whose kernel invocation has returned
  errs,             \* coordinates whose kernel invocation returned an error
  launched,         \* absl::Status returned by the synchronous Launch
  event,            \* the AsyncValueRef<LaunchEvent> of the asynchronous Launch
  poolTouched,      \* the device was read or handed to Parallelize
  parallelize,      \* arguments of the Worker::Parallelize call
  todo,             \* task indices no worker has taken yet
  running,          \* worker -> task index it is running, -1 when idle
  taskStatus,       \* task index -> absl::Status its parallel task returned
  remaining,        \* count-down of tasks that have not reported
  bstage,           \* position of the BufferInfo scenario
  req,              \* factory call: kind, size and parameter number asked for
  bi,               \* descriptor built by a factory
  enc,              \* bi.Encode()
  dec,              \* BufferInfo(enc)
  reenc,            \* dec.Encode()
  cmp,              \* operator== applied to two decoded descriptors
  alloc,            \* descriptor list, AlignedBufferBytes and MallocContiguousBuffers
  clamp,            \* the worker count of a launch on a pool
  grid,             \* the task count of a launch on a pool, at full width
  delin             \* a call of KernelParallelTask::Delinearize

launchVars ==
  <<pc, withPool, thread_dims, args, buffers, numThreadsInPool, cur, calls,
    completed, errs, launched, event, poolTouched, parallelize, todo, running,
    taskStatus, remaining>>

bufferVars == <<bstage, req, bi, enc, dec, reenc>>

\* state of the scenarios outside the launch and the encode round trip
extraVars == <<cmp, alloc, clamp, grid, delin>>

vars == <<launchVars, bufferVars, extraVars>>

\* ------------------------------------------------------------------------
\* Statuses and launch events
\* ------------------------------------------------------------------------
NoCoord == <<>>

OkStatus == [ok |-> TRUE, msg |-> "", coord |-> NoCoord]

\* absl::InternalError("Failed to call host kernel")
SyncFailure(t) ==
  [ok |-> FALSE, msg |-> "Failed to call host kernel", coord |-> NoCoord]

\* Internal("Failed to call host kernel: x=%d, y=%d, z=%d", x, y, z)
TaskFailureGeneric(t) ==
  [ok |-> FALSE, msg |-> "Failed to call host kernel", coord |-> NoCoord]

TaskFailure(t) ==
  [ok |-> FALSE, msg |-> "Failed to call host kernel: x=%d, y=%d, z=%d",
   coord |-> t]

NoEvent == [st |-> "none", status |-> OkStatus]

PendingEvent == [st |-> "unavailable", status |-> OkStatus]

OkLaunchEvent == [st |-> "available", status |-> OkStatus]

MakeErrorAsyncValueRef(status) == [st |-> "error", status |-> status]

Resolved(e) == e.st \in {"available", "error"}

\* ------------------------------------------------------------------------
\* Kernel::Launch, synchronous
\* ------------------------------------------------------------------------
Done == <<>>

\* state of the loop nest on entry: z, y, x all start at 0
FirstThread(dims) ==
  IF dims[1] > 0 /\ dims[2] > 0 /\ dims[3] > 0 THEN <<0, 0, 0>> ELSE Done

NextThreadXOuter(dims, t) ==
  IF t[3] + 1 < dims[3] THEN <<t[1], t[2], t[3] + 1>>
  ELSE IF t[2] + 1 < dims[2] THEN <<t[1], t[2] + 1, 0>>
  ELSE IF t[1] + 1 < dims[1] THEN <<t[1] + 1, 0, 0>>
  ELSE Done

\* the loop nest after the body at t: x innermost, then y, then z
NextThread(dims, t) ==
  IF t[1] + 1 < dims[1] THEN <<t[1] + 1, t[2], t[3]>>
  ELSE IF t[2] + 1 < dims[2] THEN <<0, t[2] + 1, t[3]>>
  ELSE IF t[3] + 1 < dims[3] THEN <<0, 0, t[3] + 1>>
  ELSE Done

\* who runs an invocation: the thread that called Launch, or a pool worker
\* Launch was called with an argument list, no buffer list
NoBuffers == [given |-> FALSE, list |-> <<>>]

ConvertBuffersToKernelArgsNoSize(bufs) ==
  [i \in 1..Len(bufs) |-> <<bufs[i].opaque, 0>>]

\* args[i].data = buffers[i].opaque(); args[i].size = buffers[i].size()
ConvertBuffersToKernelArgs(bufs) ==
  [i \in 1..Len(bufs) |-> <<bufs[i].opaque, bufs[i].size>>]

\* XLA_CPU_KernelThreadDim kernel_thread_dims = {x, y, z}, and the
\* thread_dims_ member of KernelParallelTask
KernelThreadDim(dims) == <<dims[1], dims[2], dims[3]>>

CallerThread == "caller"

PoolThread == "pool"

CallFrame(dims, t, a, by) ==
  [thread_dims |-> dims, thread |-> t, args |-> a, by |-> by]

AbortNever(error) == FALSE

\* if (ABSL_PREDICT_FALSE(error != nullptr)) return ...
AbortOnError(error) == error

AsyncResultAlwaysOk(status) == OkLaunchEvent

\* launched.ok() ? OkLaunchEvent() : MakeErrorAsyncValueRef(launched)
AsyncResult(status) ==
  IF status.ok THEN OkLaunchEvent ELSE MakeErrorAsyncValueRef(status)

\* the synchronous Launch returns status; the single-task asynchronous
\* Launch that called it turns the status into the event it returns
SyncReturn(status) ==
  /\ pc' = "returned"
  /\ launched' = status
  /\ event' = IF withPool' THEN AsyncResult(status) ELSE event
  /\ cur' = Done

SyncEnter(dims) ==
  IF FirstThread(dims) = Done
  THEN SyncReturn(OkStatus)
  ELSE /\ pc' = "sync_loop"
       /\ cur' = FirstThread(dims)
       /\ UNCHANGED <<launched, event>>

LaunchSync(dims, a) ==
  /\ pc = "idle"
  /\ withPool' = FALSE
  /\ thread_dims' = dims
  /\ args' = a
  /\ SyncEnter(dims)
  /\ UNCHANGED <<numThreadsInPool, calls, completed, errs, poolTouched,
                 parallelize, todo, running, taskStatus, remaining>>
  /\ UNCHANGED <<bufferVars, extraVars>>

\* Launch(thread_dims, args) called by the user of the kernel
LaunchSyncArgs(dims, a) ==
  /\ buffers' = NoBuffers
  /\ LaunchSync(dims, a)

\* Launch(thread_dims, buffers): converts and calls Launch(thread_dims, args)
LaunchSyncBuffers(dims, bufs) ==
  /\ buffers' = [given |-> TRUE, list |-> bufs]
  /\ LaunchSync(dims, ConvertBuffersToKernelArgs(bufs))

\* one iteration of the loop body: the kernel is called at cur and returns
\* an error or a null pointer
SyncStep(error) ==
  /\ pc = "sync_loop"
  /\ calls' = Append(calls, CallFrame(KernelThreadDim(thread_dims), cur, args,
                                      CallerThread))
  /\ completed' = completed \cup {cur}
  /\ errs' = IF error THEN errs \cup {cur} ELSE errs
  /\ UNCHANGED <<withPool, thread_dims, args, buffers>>
  /\ IF AbortOnError(error)
     THEN SyncReturn(SyncFailure(cur))
     ELSE IF NextThread(thread_dims, cur) = Done
          THEN SyncReturn(OkStatus)
          ELSE /\ cur' = NextThread(thread_dims, cur)
               /\ UNCHANGED <<pc, launched, event>>
  /\ UNCHANGED <<numThreadsInPool, poolTouched, parallelize, todo, running,
                 taskStatus, remaining>>
  /\ UNCHANGED <<bufferVars, extraVars>>


\* ------------------------------------------------------------------------
\* Kernel::Launch, asynchronous
\* ------------------------------------------------------------------------
Min(a, b) == IF a < b THEN a ELSE b

\* uint64_t product; the dimensions of the launches modelled here are at
\* most MaxDim, so the product is far below 2^64 and does not wrap
MulU64(a, b) == a * b

\* size_t num_tasks = thread_dims.x * thread_dims.y * thread_dims.z
NumTasks(dims) == MulU64(MulU64(dims[1], dims[2]), dims[3])

CheckGTNone(a, b) == TRUE

\* CHECK_GT(num_tasks, 0)
CheckGT(a, b) == a > b

IsSingleTaskNever(num_tasks) == FALSE

\* if (ABSL_PREDICT_TRUE(num_tasks == 1))
IsSingleTask(num_tasks) == num_tasks = 1

Uint16Max == 65535

NumWorkersNoClamp(num_tasks, threads) == Min(num_tasks, threads)

\* num_workers = min(min(num_tasks, numThreadsInPool()), uint16 max)
NumWorkers(num_tasks, threads) == Min(Min(num_tasks, threads), Uint16Max)

ParallelizeArgsWorkersAsTasks(num_tasks, threads) ==
  [called |-> TRUE,
   num_workers |-> Min(Min(num_tasks, threads), Uint16Max),
   num_tasks |-> Min(Min(num_tasks, threads), Uint16Max)]

\* Worker::Parallelize(device, num_workers, num_tasks, task)
ParallelizeArgs(num_tasks, threads) ==
  [called |-> TRUE,
   num_workers |-> NumWorkers(num_tasks, threads),
   num_tasks |-> num_tasks]

NotParallelized == [called |-> FALSE, num_workers |-> 0, num_tasks |-> 0]

DelinearizeStrideY(dims, task_index) ==
  LET stride_z == MulU64(dims[2], dims[1])
      stride_y == dims[2]
      z        == task_index \div stride_z
      r        == task_index % stride_z
  IN  <<r % stride_y, r \div stride_y, z>>

DelinearizeStrideZ(dims, task_index) ==
  LET stride_z == MulU64(dims[3], dims[1])
      stride_y == dims[1]
      z        == task_index \div stride_z
      r        == task_index % stride_z
      y        == r \div stride_y
      x        == r % stride_y
  IN  <<x, y, z>>

\* KernelParallelTask::Delinearize
Delinearize(dims, task_index) ==
  LET stride_z == MulU64(dims[2], dims[1])
      stride_y == dims[1]
      z        == task_index \div stride_z
      r        == task_index % stride_z
      y        == r \div stride_y
      x        == r % stride_y
  IN  <<x, y, z>>

\* the status KernelParallelTask::operator() returns for its coordinate
TaskResult(t, error) == IF ~error THEN OkStatus ELSE TaskFailure(t)

Workers == 1..parallelize.num_workers

Idle == -1

\* Worker::Parallelize: every task index in [0, num_tasks) is handed to one
\* of num_workers workers; the signal it returns is unavailable until the
\* tasks resolve it
Parallelize(pargs) ==
  /\ parallelize' = pargs
  /\ todo' = 0..(pargs.num_tasks - 1)
  /\ running' = [w \in 1..pargs.num_workers |-> Idle]
  /\ remaining' = pargs.num_tasks
  /\ event' = PendingEvent

LaunchAsync(dims, a, threads) ==
  /\ pc = "idle"
  /\ withPool' = TRUE
  /\ thread_dims' = dims
  /\ args' = a
  /\ numThreadsInPool' = threads
  /\ IF ~CheckGT(NumTasks(dims), 0)
     THEN /\ pc' = "crashed"
          /\ UNCHANGED <<cur, launched, event, poolTouched, parallelize,
                         todo, running, remaining>>
     ELSE IF IsSingleTask(NumTasks(dims))
          THEN /\ SyncEnter(dims)
               /\ UNCHANGED <<poolTouched, parallelize, todo, running,
                              remaining>>
          ELSE /\ poolTouched' = TRUE
               /\ Parallelize(ParallelizeArgs(NumTasks(dims), threads))
               /\ pc' = "returned"
               /\ UNCHANGED <<cur, launched>>
  /\ UNCHANGED <<calls, completed, errs, taskStatus>>
  /\ UNCHANGED <<bufferVars, extraVars>>

\* Launch(thread_dims, args, device) called by the user of the kernel
LaunchAsyncArgs(dims, a, threads) ==
  /\ buffers' = NoBuffers
  /\ LaunchAsync(dims, a, threads)

\* Launch(thread_dims, buffers, device): converts and calls
\* Launch(thread_dims, args, device)
LaunchAsyncBuffers(dims, bufs, threads) ==
  /\ buffers' = [given |-> TRUE, list |-> bufs]
  /\ LaunchAsync(dims, ConvertBuffersToKernelArgs(bufs), threads)

\* worker w takes task index i: KernelParallelTask::operator()(i) builds
\* the call frame and calls the kernel
TaskInvoke(w, i) ==
  /\ parallelize.called
  /\ w \in Workers
  /\ running[w] = Idle
  /\ i \in todo
  /\ todo' = todo \ {i}
  /\ running' = [running EXCEPT ![w] = i]
  /\ calls' = Append(calls,
                     CallFrame(KernelThreadDim(thread_dims),
                               Delinearize(thread_dims, i), args, PoolThread))
  /\ UNCHANGED <<pc, withPool, thread_dims, args, buffers, numThreadsInPool, cur,
                 completed, errs, launched, event, poolTouched, parallelize,
                 taskStatus, remaining>>
  /\ UNCHANGED <<bufferVars, extraVars>>

\* the kernel call of worker w returns; the task's status is reported: the
\* first failure resolves the signal, the last report resolves it to
\* success when nothing failed
TaskReturn(w, error) ==
  /\ parallelize.called
  /\ w \in Workers
  /\ running[w] # Idle
  /\ LET i      == running[w]
         t      == Delinearize(thread_dims, i)
         status == TaskResult(t, error)
     IN  /\ taskStatus' = [taskStatus EXCEPT ![i] = status]
         /\ completed' = completed \cup {t}
         /\ errs' = IF error THEN errs \cup {t} ELSE errs
         /\ remaining' = remaining - 1
         /\ event' = IF event.st # "unavailable" THEN event
                     ELSE IF ~status.ok THEN MakeErrorAsyncValueRef(status)
                     ELSE IF remaining - 1 = 0 THEN OkLaunchEvent
                     ELSE event
  /\ running' = [running EXCEPT ![w] = Idle]
  /\ UNCHANGED <<pc, withPool, thread_dims, args, buffers, numThreadsInPool,
                 cur, calls, launched, poolTouched, parallelize, todo>>
  /\ UNCHANGED <<bufferVars, extraVars>>

\* ------------------------------------------------------------------------
\* Specification of the launch
\* ------------------------------------------------------------------------
Grids ==
  {d \in (0..MaxDim) \X (0..MaxDim) \X (0..MaxDim) :
     d[1] * d[2] * d[3] <= MaxTasks}

NoStatus == [ok |-> TRUE, msg |-> "none", coord |-> NoCoord]

BufferIdle ==
  /\ bstage = "none"
  /\ req = [kind |-> kConstant, size |-> {}, param |-> WordBits]
  /\ bi = MakeConstant({})
  /\ enc = <<{}, {}>>
  /\ dec = MakeConstant({})
  /\ reenc = <<{}, {}>>

LaunchIdle ==
  /\ pc = "idle"
  /\ withPool = FALSE
  /\ thread_dims = <<0, 0, 0>>
  /\ args = <<>>
  /\ buffers = NoBuffers
  /\ numThreadsInPool = 0
  /\ cur = Done
  /\ calls = <<>>
  /\ completed = {}
  /\ errs = {}
  /\ launched = NoStatus
  /\ event = NoEvent
  /\ poolTouched = FALSE
  /\ parallelize = NotParallelized
  /\ todo = {}
  /\ running = <<>>
  /\ taskStatus = [i \in 0..(MaxTasks + MaxDim) |-> NoStatus]
  /\ remaining = 0

AllocIdle ==
  alloc = [stage |-> "build", buffer_infos |-> <<>>,
           allocate_entry_params |-> FALSE, bytes |-> 0, head |-> Null,
           bufs |-> <<>>]

DelinIdle ==
  delin = [stage |-> "none", thread_dims |-> <<1, 1, 1>>, task_index |-> 0,
           thread |-> <<0, 0, 0>>]

ClampIdle ==
  clamp = [stage |-> "none", num_tasks |-> 0, threads |-> 0,
           parallelize |-> NotParallelized]

GridIdle ==
  grid = [stage |-> "none", thread_dims |-> <<{}, {}, {}>>, num_tasks |-> {},
          branch |-> "none", task_num_tasks |-> {}]

CompareIdle ==
  cmp = [stage |-> "none", lhs |-> MakeConstant({}), rhs |-> MakeConstant({}),
         eq |-> FALSE]

ExtraIdle ==
  CompareIdle /\ AllocIdle /\ ClampIdle /\ GridIdle /\ DelinIdle

Init == LaunchIdle /\ BufferIdle /\ ExtraIdle

\* grids of the launches that are given a buffer list
BufferGrids == {d \in Grids : d[1] * d[2] * d[3] <= MaxBufferTasks}

Next ==
  \/ \E d \in Grids, a \in ArgLists : LaunchSyncArgs(d, a)
  \/ \E d \in BufferGrids, b \in BufferLists : LaunchSyncBuffers(d, b)
  \/ \E error \in BOOLEAN : SyncStep(error)
  \/ \E d \in Grids, a \in ArgLists, n \in 1..MaxThreads :
       LaunchAsyncArgs(d, a, n)
  \/ \E d \in BufferGrids, b \in BufferLists, n \in 1..MaxThreads :
       LaunchAsyncBuffers(d, b, n)
  \/ \E w \in Workers, i \in todo : TaskInvoke(w, i)
  \/ \E w \in Workers, error \in BOOLEAN : TaskReturn(w, error)

Spec == Init /\ [][Next]_vars


\* the parallel launch under the scheduling of the pool: a worker that can
\* take a task does, and a kernel call returns
FairSpec ==
  /\ Init
  /\ [][Next]_vars
  /\ WF_vars(\E w \in Workers, i \in todo : TaskInvoke(w, i))
  /\ WF_vars(\E w \in Workers, error \in BOOLEAN : TaskReturn(w, error))

\* ------------------------------------------------------------------------
\* Specification of the buffer descriptors
\* ------------------------------------------------------------------------
Made(k, sz, pn, b) ==
  /\ bstage = "none"
  /\ cmp.stage = "none"
  /\ bstage' = "made"
  /\ req' = [kind |-> k, size |-> sz, param |-> pn]
  /\ bi' = b
  /\ UNCHANGED <<enc, dec, reenc>>
  /\ UNCHANGED <<launchVars, extraVars>>

CallMakeTempBuffer(sz) == Made(kTempBuffer, sz, WordBits, MakeTempBuffer(sz))

CallMakeConstant(sz) == Made(kConstant, sz, WordBits, MakeConstant(sz))

CallMakeEntryParameter(sz, pn) ==
  Made(kEntryParameter, sz, pn, MakeEntryParameter(sz, pn))

CallMakeOnStackBuffer(sz) ==
  Made(kOnStackBuffer, sz, WordBits, MakeOnStackBuffer(sz))

\* enc = bi.Encode()
CallEncode ==
  /\ bstage = "made"
  /\ bstage' = "encoded"
  /\ enc' = Encode(bi)
  /\ UNCHANGED <<req, bi, dec, reenc>>
  /\ UNCHANGED <<launchVars, extraVars>>

\* dec = BufferInfo(enc)
CallDecode ==
  /\ bstage = "encoded"
  /\ bstage' = "decoded"
  /\ dec' = BufferInfoFromEncoding(enc)
  /\ UNCHANGED <<req, bi, enc, reenc>>
  /\ UNCHANGED <<launchVars, extraVars>>

\* reenc = dec.Encode()
CallEncodeDecoded ==
  /\ bstage = "decoded"
  /\ bstage' = "reencoded"
  /\ reenc' = Encode(dec)
  /\ UNCHANGED <<req, bi, enc, dec>>
  /\ UNCHANGED <<launchVars, extraVars>>

\* BufferInfo(<<w1, w2>>) == BufferInfo(<<v1, v2>>)
CallEquals(w1, w2, v1, v2) ==
  /\ bstage = "none"
  /\ cmp.stage = "none"
  /\ cmp' = [stage |-> "compared",
             lhs |-> BufferInfoFromEncoding(<<w1, w2>>),
             rhs |-> BufferInfoFromEncoding(<<v1, v2>>),
             eq |-> Equals(BufferInfoFromEncoding(<<w1, w2>>),
                           BufferInfoFromEncoding(<<v1, v2>>))]
  /\ UNCHANGED <<launchVars, bufferVars, alloc, clamp, grid, delin>>

NextBuffer ==
  \/ \E w1, v1 \in CompareFirstWords, w2, v2 \in CompareSecondWords :
       CallEquals(w1, w2, v1, v2)
  \/ \E sz \in SizeInputs : CallMakeTempBuffer(sz)
  \/ \E sz \in SizeInputs : CallMakeConstant(sz)
  \/ \E sz \in SizeInputs, pn \in ParamInputs : CallMakeEntryParameter(sz, pn)
  \/ \E sz \in SizeInputs : CallMakeOnStackBuffer(sz)
  \/ CallEncode
  \/ CallDecode
  \/ CallEncodeDecoded

SpecBuffer == Init /\ [][NextBuffer]_vars


\* ------------------------------------------------------------------------
\* Specification of the allocator
\* ------------------------------------------------------------------------
\* the caller puts one more descriptor on its list
AddBufferInfo(b) ==
  /\ alloc.stage = "build"
  /\ Len(alloc.buffer_infos) < MaxBuffers
  /\ alloc' = [alloc EXCEPT !.buffer_infos = Append(@, b)]
  /\ UNCHANGED <<launchVars, bufferVars, cmp, clamp, grid, delin>>

CallAlignedBufferBytes(allocate_entry_params) ==
  /\ alloc.stage = "build"
  /\ alloc' = [alloc EXCEPT
                 !.stage = "sized",
                 !.allocate_entry_params = allocate_entry_params,
                 !.bytes = AlignedBufferBytes(alloc.buffer_infos,
                                              allocate_entry_params)]
  /\ UNCHANGED <<launchVars, bufferVars, cmp, clamp, grid, delin>>

CallMallocContiguousBuffers(allocate_entry_params, head) ==
  /\ alloc.stage = "build"
  /\ LET m == MallocContiguousBuffers(alloc.buffer_infos,
                                      allocate_entry_params, head)
     IN  alloc' = [alloc EXCEPT
                     !.stage = "allocated",
                     !.allocate_entry_params = allocate_entry_params,
                     !.bytes = m.bytes,
                     !.head = m.head,
                     !.bufs = m.bufs]
  /\ UNCHANGED <<launchVars, bufferVars, cmp, clamp, grid, delin>>

NextAlloc ==
  \/ \E b \in AllocInputs : AddBufferInfo(b)
  \/ \E f \in BOOLEAN : CallAlignedBufferBytes(f)
  \/ \E f \in BOOLEAN, head \in HeadInputs :
       CallMallocContiguousBuffers(f, head)

SpecAlloc == Init /\ [][NextAlloc]_vars

\* ------------------------------------------------------------------------
\* Specification of the parallel task's index conversion
\* ------------------------------------------------------------------------
TaskGrids == (1..MaxGridX) \X (1..MaxGridY) \X (1..MaxGridZ)

\* a KernelParallelTask built for dims converts a task index below
\* num_tasks (the DCHECK_LT of operator())
CallDelinearize(dims, task_index) ==
  /\ delin.stage = "none"
  /\ task_index < NumTasks(dims)
  /\ delin' = [stage |-> "done", thread_dims |-> dims,
               task_index |-> task_index,
               thread |-> Delinearize(dims, task_index)]
  /\ UNCHANGED <<launchVars, bufferVars, cmp, alloc, clamp, grid>>

NextDelinearize ==
  \E dims \in TaskGrids,
     task_index \in 0..(MaxGridX * MaxGridY * MaxGridZ - 1) :
    CallDelinearize(dims, task_index)

SpecDelinearize == Init /\ [][NextDelinearize]_vars

\* ------------------------------------------------------------------------
\* Specification of the worker count of a launch on a pool
\* ------------------------------------------------------------------------
\* largest small task count and pool size of the worker-count computation
MaxCount == 8

\* task counts and pool sizes around the uint16 limit
LargeCounts == {Uint16Max - 1, Uint16Max, Uint16Max + 1, 2 * Uint16Max}

\* Launch with a device, past CHECK_GT and the single-task path: the
\* arguments it hands to Worker::Parallelize
LaunchParallelizeArgs(num_tasks, threads) ==
  /\ clamp.stage = "none"
  /\ CheckGT(num_tasks, 0)
  /\ ~IsSingleTask(num_tasks)
  /\ clamp' = [stage |-> "done", num_tasks |-> num_tasks, threads |-> threads,
               parallelize |-> ParallelizeArgs(num_tasks, threads)]
  /\ UNCHANGED <<launchVars, bufferVars, cmp, alloc, grid, delin>>

NextClamp ==
  \E num_tasks \in (1..MaxCount) \cup LargeCounts,
     threads \in (1..MaxCount) \cup LargeCounts :
    LaunchParallelizeArgs(num_tasks, threads)

SpecClamp == Init /\ [][NextClamp]_vars

\* ------------------------------------------------------------------------
\* Specification of the task count at the full width of size_t
\* ------------------------------------------------------------------------
\* largest small dimension of the full-width grids
MaxWordDim == 3

\* 0xAAAAAAAAAAAAAAAB, the inverse of 3 modulo 2^64
InverseOfThree == {0} \cup {i \in WordBits : i % 2 = 1}

\* uint64_t dimensions: small ones, 2^32, 2^63 and the inverse of 3
DimWords ==
  {FromNat(n) : n \in 0..MaxWordDim} \cup {{32}, {63}, InverseOfThree}

\* size_t num_tasks = thread_dims.x * thread_dims.y * thread_dims.z
NumTasks64(dims) == Mul64(Mul64(dims[1], dims[2]), dims[3])

\* Launch with a device up to the choice of its path: CHECK_GT aborts,
\* the single task runs inline, or the tasks go to Worker::Parallelize
LaunchNumTasks(dims) ==
  /\ grid.stage = "none"
  /\ LET num_tasks == NumTasks64(dims)
     IN  grid' = [grid EXCEPT
                    !.stage = "launched",
                    !.thread_dims = dims,
                    !.num_tasks = num_tasks,
                    !.branch = IF num_tasks = {} THEN "fatal"
                               ELSE IF num_tasks = FromNat(1) THEN "inline"
                               ELSE "parallel"]
  /\ UNCHANGED <<launchVars, bufferVars, cmp, alloc, clamp, delin>>

\* KernelParallelTask::operator() recomputes num_tasks from its copy of
\* the dimensions for its range check
TaskNumTasks ==
  /\ grid.stage = "launched"
  /\ grid.branch = "parallel"
  /\ grid' = [grid EXCEPT !.stage = "task",
                          !.task_num_tasks = NumTasks64(grid.thread_dims)]
  /\ UNCHANGED <<launchVars, bufferVars, cmp, alloc, clamp, delin>>

NextNumTasks ==
  \/ \E dims \in DimWords \X DimWords \X DimWords : LaunchNumTasks(dims)
  \/ TaskNumTasks

SpecNumTasks == Init /\ [][NextNumTasks]_vars

\* ------------------------------------------------------------------------
\* Properties
\* ------------------------------------------------------------------------
GridCoords(dims) ==
  {t \in (0..MaxDim) \X (0..MaxDim) \X (0..MaxDim) :
     t[1] < dims[1] /\ t[2] < dims[2] /\ t[3] < dims[3]}

GridSize(dims) == dims[1] * dims[2] * dims[3]

LinearIndex(dims, t) == t[1] + dims[1] * t[2] + dims[1] * dims[2] * t[3]

CalledCoords == {calls[k].thread : k \in 1..Len(calls)}

SyncLaunched == ~withPool /\ pc # "idle"

ParallelLaunched == withPool /\ parallelize.called

\* C1: in a launch with a worker pool and more than one task, no coordinate
\* is handed to the kernel twice, every invocation is at a coordinate of the
\* grid, no coordinate is left out once all tasks have reported, and the
\* completion signal is success only when every coordinate of the grid has
\* been invoked exactly once and every invocation has returned.
C1_FanOutExactlyOnce ==
  ParallelLaunched =>
    /\ \A j, k \in 1..Len(calls) :
         j # k => calls[j].thread # calls[k].thread
    /\ CalledCoords \subseteq GridCoords(thread_dims)
    /\ remaining = 0 =>
         /\ CalledCoords = GridCoords(thread_dims)
         /\ Len(calls) = GridSize(thread_dims)
    /\ event.st = "available" =>
         /\ Len(calls) = GridSize(thread_dims)
         /\ CalledCoords = GridCoords(thread_dims)
         /\ completed = GridCoords(thread_dims)
         /\ \A w \in Workers : running[w] = Idle

C1_Witness ==
  /\ ParallelLaunched
  /\ thread_dims = <<2, 1, 2>>
  /\ numThreadsInPool = 2
  /\ event.st = "available"
  /\ Len(calls) = 4
  /\ calls[1].thread = <<1, 0, 1>>

\* C2: the completion signal of a launch with a worker pool goes from not
\* started to running to success or failure, or straight to success or
\* failure, and once it is success or failure it never changes; it becomes
\* a failure with the first kernel error, a later error does not replace
\* it, and it is success exactly when all tasks have finished and none
\* failed.
C2_SignalStep ==
  /\ Resolved(event) => event' = event
  /\ event' # event =>
       \/ event.st = "none" /\ event'.st = "unavailable"
       \/ event.st = "none" /\ Resolved(event')
       \/ event.st = "unavailable" /\ Resolved(event')
  /\ (withPool' /\ errs = {} /\ errs' # {}) =>
       /\ event'.st = "error"
       /\ ~event'.status.ok

C2_SignalState ==
  withPool =>
    /\ event.st = "error" <=> errs # {}
    /\ event.st = "available" =>
         /\ errs = {}
         /\ completed = GridCoords(thread_dims)
    /\ (pc = "returned" /\ errs = {}
        /\ completed = GridCoords(thread_dims)) => event.st = "available"

C2_SingleAssignment == [][C2_SignalStep]_vars /\ []C2_SignalState

C2_Witness ==
  /\ ParallelLaunched
  /\ event.st = "error"
  /\ Cardinality(errs) = 3
  /\ remaining = 0
  /\ event.status.coord = calls[2].thread

\* C3: in a launch without a worker pool in which no kernel invocation has
\* returned an error, the k-th invocation is at the coordinate with linear
\* index k-1 (x fastest, then y, then z), inside the grid, and the launch
\* has returned success exactly when the whole grid has been invoked.
C3_SyncOrder ==
  (SyncLaunched /\ errs = {}) =>
    /\ \A k \in 1..Len(calls) :
         /\ calls[k].thread \in GridCoords(thread_dims)
         /\ LinearIndex(thread_dims, calls[k].thread) = k - 1
    /\ pc = "returned" =>
         /\ launched = OkStatus
         /\ Len(calls) = GridSize(thread_dims)
    /\ pc = "sync_loop" =>
         /\ launched # OkStatus
         /\ Len(calls) < GridSize(thread_dims)

C3_Witness ==
  /\ SyncLaunched
  /\ thread_dims = <<2, 1, 2>>
  /\ pc = "returned"
  /\ launched = OkStatus
  /\ Len(calls) = 4
  /\ calls[3].thread = <<0, 0, 1>>

\* C4: in a launch without a worker pool, once a kernel invocation has
\* returned an error the launch has returned a failure, the failing
\* invocation is the last one made and the only one that failed; a launch
\* that returned did so with success exactly when no invocation returned
\* an error.
C4_SyncAbort ==
  SyncLaunched =>
    /\ errs # {} =>
         /\ pc = "returned"
         /\ ~launched.ok
         /\ errs = {calls[Len(calls)].thread}
         /\ \A k \in 1..(Len(calls) - 1) : calls[k].thread \notin errs
    /\ pc = "returned" => (launched.ok <=> errs = {})
    /\ pc = "returned" => (launched = OkStatus <=> errs = {})

C4_Witness ==
  /\ SyncLaunched
  /\ thread_dims = <<1, 2, 2>>
  /\ pc = "returned"
  /\ ~launched.ok
  /\ Len(calls) = 2
  /\ errs = {<<0, 1, 0>>}

FailedTasks ==
  {i \in 0..(parallelize.num_tasks - 1) : ~taskStatus[i].ok}

C6_DegenerateLaunch ==
  (withPool /\ GridSize(thread_dims) = 1) =>
    /\ ~poolTouched
    /\ ~parallelize.called
    /\ pc \in {"sync_loop", "returned"}
    /\ \A k \in 1..Len(calls) : calls[k].by = CallerThread
    /\ pc = "sync_loop" => calls = <<>>
    /\ pc = "returned" =>
         /\ Len(calls) = 1
         /\ calls[1].thread = <<0, 0, 0>>
         /\ Resolved(event)
         /\ event.st = "available" <=> errs = {}
         /\ event.st = "error" <=> errs = {<<0, 0, 0>>}

C6_Witness ==
  /\ withPool
  /\ thread_dims = <<1, 1, 1>>
  /\ pc = "returned"
  /\ event.st = "error"
  /\ Len(calls) = 1

\* C7: in a launch with a worker pool and more than one task, under fair
\* scheduling of the pool every task index is eventually invoked and
\* reports, also after a task has failed; the signal is then the one
\* failure.
C7_AllTasksRun ==
  CalledCoords = GridCoords(thread_dims) /\ remaining = 0 /\ todo = {}

C7_NoCancellation ==
  /\ ParallelLaunched ~> C7_AllTasksRun
  /\ (ParallelLaunched /\ errs # {}) ~> (C7_AllTasksRun /\ event.st = "error")
  /\ [][(ParallelLaunched /\ errs # {}) => todo' \subseteq todo /\ event' = event]_vars

C7_Witness ==
  /\ ParallelLaunched
  /\ numThreadsInPool = 1
  /\ GridSize(thread_dims) = 3
  /\ C7_AllTasksRun
  /\ errs = {calls[1].thread}
  /\ event.st = "error"
  /\ event.status.coord = calls[1].thread

\* C8: a launch with a worker pool over a grid of zero tasks stops in the
\* fatal check: no kernel invocation was made, the pool was not touched,
\* Parallelize was not called and no signal was created.
C8_InvalidGrid ==
  (withPool /\ GridSize(thread_dims) = 0) =>
    /\ pc = "crashed"
    /\ calls = <<>>
    /\ ~poolTouched
    /\ ~parallelize.called
    /\ event = NoEvent
    /\ launched = NoStatus

C8_Witness ==
  /\ withPool
  /\ pc = "crashed"
  /\ thread_dims = <<2, 0, 2>>

In62Bits(w) == w \subseteq 0..61

\* C9: for a descriptor built by a factory with a size below 2^62 and any
\* parameter number, the descriptor decoded from its encoding has the kind
\* and the size asked for, which are those of the original and, for an
\* entry parameter, its parameter number, and compares equal to the
\* original in both directions.
C9_RoundTrip ==
  (bstage \in {"decoded", "reencoded"} /\ In62Bits(req.size)) =>
    /\ kind(dec) = kind(bi)
    /\ kind(dec) = req.kind
    /\ size(dec) = size(bi)
    /\ size(dec) = req.size
    /\ is_entry_parameter(bi) =>
         /\ entry_parameter_number(dec) = entry_parameter_number(bi)
         /\ entry_parameter_number(dec) = req.param
    /\ Equals(dec, bi)
    /\ Equals(bi, dec)

C9_Witness ==
  /\ bstage = "decoded"
  /\ req = [kind |-> kEntryParameter, size |-> 0..61, param |-> WordBits]
  /\ dec.entry_param_number_ = [neg |-> TRUE, mag |-> {0}]
  /\ size(dec) = 0..61

\* C10: encoding the descriptor decoded from the encoding of a descriptor
\* gives that encoding again, both words bit for bit.
C10_EncodingLaw ==
  bstage = "reencoded" => (reenc = enc /\ reenc = Encode(bi))

C10_Witness ==
  /\ bstage = "reencoded"
  /\ req = [kind |-> kOnStackBuffer, size |-> {0, 61}, param |-> WordBits]
  /\ reenc = <<{0, 1, 2, 63}, WordBits>>

SameParam(a, b) == a.entry_param_number_ = b.entry_param_number_

\* C11: operator== on two descriptors is true exactly when their kinds are
\* equal, their sizes are equal and, for entry parameters only, their
\* parameter numbers are equal: entry parameters of equal size and
\* different parameter numbers are unequal, and two descriptors of another
\* kind and equal size are equal whatever second word each was decoded from.
C11_EqualityLaw ==
  cmp.stage = "compared" =>
    /\ cmp.eq <=>
         /\ kind(cmp.lhs) = kind(cmp.rhs)
         /\ size(cmp.lhs) = size(cmp.rhs)
         /\ kind(cmp.lhs) = kEntryParameter => SameParam(cmp.lhs, cmp.rhs)
    /\ (/\ kind(cmp.lhs) = kEntryParameter
        /\ kind(cmp.rhs) = kEntryParameter
        /\ size(cmp.lhs) = size(cmp.rhs)
        /\ ~SameParam(cmp.lhs, cmp.rhs)) => ~cmp.eq
    /\ (/\ kind(cmp.lhs) \in {kConstant, kTempBuffer, kOnStackBuffer}
        /\ kind(cmp.lhs) = kind(cmp.rhs)
        /\ size(cmp.lhs) = size(cmp.rhs)) => cmp.eq

C11_Witness ==
  /\ cmp.stage = "compared"
  /\ kind(cmp.lhs) = kConstant
  /\ kind(cmp.rhs) = kConstant
  /\ size(cmp.lhs) = 0..61
  /\ size(cmp.rhs) = 0..61
  /\ cmp.lhs.entry_param_number_ = [neg |-> FALSE, mag |-> {0}]
  /\ cmp.rhs.entry_param_number_ = [neg |-> TRUE, mag |-> {63}]
  /\ cmp.eq


Encoded == bstage \in {"encoded", "decoded", "reencoded"}

\* C12: the first encoded word has the kind in its low 2 bits (Constant 0,
\* TempBuffer 1, EntryParameter 2, OnStackBuffer 3) and the size in its
\* high 62 bits, the second word is the parameter number, and a descriptor
\* built by MakeTempBuffer, MakeConstant or MakeOnStackBuffer has all ones
\* (-1) in the second word.
C12_ByteStableLayout ==
  Encoded =>
    /\ kConstant = 0 /\ kTempBuffer = 1
    /\ kEntryParameter = 2 /\ kOnStackBuffer = 3
    /\ kind(bi) = req.kind
    /\ 0 \in enc[1] <=> req.kind \in {1, 3}
    /\ 1 \in enc[1] <=> req.kind \in {2, 3}
    /\ {i - 2 : i \in enc[1] \ {0, 1}} = size(bi)
    /\ enc[1] = {i + 2 : i \in size(bi)} \cup (enc[1] \cap {0, 1})
    /\ In62Bits(req.size) => {i - 2 : i \in enc[1] \ {0, 1}} = req.size
    /\ enc[2] = req.param
    /\ req.kind \in {0, 1, 3} => enc[2] = 0..63

C12_Witness ==
  /\ bstage = "encoded"
  /\ req = [kind |-> 1, size |-> {0, 61}, param |-> 0..63]
  /\ enc = <<{0, 2, 63}, 0..63>>

\* C13 as stated: for every 64-bit size handed to a factory, size() of the
\* descriptor is that size and its kind is the kind of the factory.
C13_Original ==
  bstage # "none" => (size(bi) = req.size /\ kind(bi) = req.kind)

\* C13, amended: for every size below 2^62 handed to a factory, size() of
\* the descriptor is that size, unchanged, and its kind is the kind of the
\* factory; of a size of 2^62 or more the bit-field keeps the low 62 bits.
C13_SizeVerbatim ==
  bstage # "none" =>
    /\ kind(bi) = req.kind
    /\ In62Bits(req.size) => size(bi) = req.size
    /\ size(bi) = req.size \ {62, 63}

C13_Witness ==
  /\ bstage = "made"
  /\ req.kind = kOnStackBuffer
  /\ req.size = 0..61
  /\ size(bi) = 0..61
  /\ is_on_stack_buffer(bi)


\* what the allocator is to do, written out on the numbers
Eligible(b, flag) == b.kind_ = 1 \/ (b.kind_ = 2 /\ flag)

Up64(n) == n + ((64 - (n % 64)) % 64)

RECURSIVE EligibleBytes(_, _, _)
EligibleBytes(infos, flag, n) ==
  IF n = 0 THEN 0
  ELSE (IF Eligible(infos[n], flag) THEN Up64(ToNat(infos[n].size_)) ELSE 0)
       + EligibleBytes(infos, flag, n - 1)

\* C14: AlignedBufferBytes is the sum of the sizes, each rounded up to a
\* multiple of 64, of the temp buffers and, when entry parameters are asked
\* for, of the entry parameters; constants and on-stack buffers add
\* nothing: [TempBuffer(1), Constant(1000)] gives 64.
C14_AllocationSizing ==
  alloc.stage = "sized" =>
    /\ alloc.bytes = EligibleBytes(alloc.buffer_infos,
                                   alloc.allocate_entry_params,
                                   Len(alloc.buffer_infos))
    /\ alloc.bytes % 64 = 0
    /\ alloc.buffer_infos
         = <<MakeTempBuffer(FromNat(1)), MakeConstant(FromNat(1000))>>
       => alloc.bytes = 64

C14_Witness ==
  /\ alloc.stage = "sized"
  /\ alloc.allocate_entry_params
  /\ alloc.buffer_infos
       = <<MakeTempBuffer(FromNat(1)), MakeConstant(FromNat(1000)),
           MakeEntryParameter(FromNat(65), {0})>>
  /\ alloc.bytes = 192

Allocated(i) ==
  Eligible(alloc.buffer_infos[i], alloc.allocate_entry_params)

\* C15: MallocContiguousBuffers gives each eligible descriptor the head of
\* the block plus the aligned sizes of the eligible descriptors before it,
\* and null to every other descriptor; the ranges of the eligible
\* descriptors start at multiples of 64 from the head, do not overlap and
\* lie inside the block of AlignedBufferBytes bytes: temp buffers of sizes
\* 10, 70 and 1 get offsets 0, 64 and 192 in a block of 256 bytes.
C15_Contiguity ==
  alloc.stage = "allocated" =>
    LET infos == alloc.buffer_infos
        n     == Len(infos)
        flag  == alloc.allocate_entry_params
        sz(i) == ToNat(infos[i].size_)
    IN  /\ Len(alloc.bufs) = n
        /\ alloc.bytes = EligibleBytes(infos, flag, n)
        /\ \A i \in 1..n :
             IF Allocated(i)
             THEN /\ alloc.bufs[i]
                       = alloc.head + EligibleBytes(infos, flag, i - 1)
                  /\ (alloc.bufs[i] - alloc.head) % 64 = 0
                  /\ alloc.bufs[i] >= alloc.head
                  /\ alloc.bufs[i] + sz(i) <= alloc.head + alloc.bytes
             ELSE alloc.bufs[i] = 0
        /\ \A i, j \in 1..n :
             (i < j /\ Allocated(i) /\ Allocated(j)) =>
               alloc.bufs[i] + sz(i) <= alloc.bufs[j]
        /\ infos = <<MakeTempBuffer(FromNat(10)), MakeTempBuffer(FromNat(70)),
                     MakeTempBuffer(FromNat(1))>>
           => /\ alloc.bufs
                   = <<alloc.head, alloc.head + 64, alloc.head + 192>>
              /\ alloc.bytes = 256

C15_Witness ==
  /\ alloc.stage = "allocated"
  /\ alloc.buffer_infos
       = <<MakeTempBuffer(FromNat(10)), MakeTempBuffer(FromNat(70)),
           MakeTempBuffer(FromNat(1))>>
  /\ alloc.head = 4096
  /\ alloc.bufs = <<4096, 4160, 4288>>
  /\ alloc.bytes = 256


\* C16 as stated: in the grid (3, 4, 5) the task index 37 is converted to
\* the coordinate (x = 1, y = 3, z = 3).
C16_Original ==
  (/\ delin.stage = "done"
   /\ delin.thread_dims = <<3, 4, 5>>
   /\ delin.task_index = 37) => delin.thread = <<1, 3, 3>>

\* C16, amended: in the grid (3, 4, 5) the task index 37 is converted to
\* the coordinate (x = 1, y = 0, z = 3).
C16_FixedPoint ==
  (/\ delin.stage = "done"
   /\ delin.thread_dims = <<3, 4, 5>>
   /\ delin.task_index = 37) => delin.thread = <<1, 0, 3>>

C16_Witness ==
  /\ delin.stage = "done"
  /\ delin.thread_dims = <<3, 4, 5>>
  /\ delin.task_index = 37
  /\ delin.thread[2] = 0

\* C17: for a grid with all dimensions at least 1 and a task index below
\* X*Y*Z, the coordinate is z = idx / (Y*X), y = (idx mod (Y*X)) / X,
\* x = idx mod X; it lies in the grid and its linear index x + X*y + X*Y*z
\* is idx; no other task index of the grid has the same coordinate, and
\* the task indices of the grid cover the grid.
C17_Bijection ==
  delin.stage = "done" =>
    LET X   == delin.thread_dims[1]
        Y   == delin.thread_dims[2]
        Z   == delin.thread_dims[3]
        idx == delin.task_index
        t   == delin.thread
        images == {Delinearize(delin.thread_dims, j) : j \in 0..(X * Y * Z - 1)}
    IN  /\ t[3] = idx \div (Y * X)
        /\ t[2] = (idx % (Y * X)) \div X
        /\ t[1] = idx % X
        /\ t[1] < X /\ t[2] < Y /\ t[3] < Z
        /\ t[1] + X * t[2] + X * Y * t[3] = idx
        /\ \A j \in 0..(X * Y * Z - 1) :
             Delinearize(delin.thread_dims, j) = t => j = idx
        /\ images = (0..(X - 1)) \X (0..(Y - 1)) \X (0..(Z - 1))

C17_Witness ==
  /\ delin.stage = "done"
  /\ delin.thread_dims = <<2, 3, 4>>
  /\ delin.task_index = 23
  /\ delin.thread = <<1, 2, 3>>


\* C18: a launch on a pool with more than one task passes to Parallelize
\* the task count unchanged and a worker count that is the least of the
\* task count, the pool's thread count and 65535, so the worker count
\* exceeds none of the three.
C18_WorkerClamp ==
  clamp.stage = "done" =>
    LET w == clamp.parallelize.num_workers
    IN  /\ clamp.num_tasks > 1
        /\ clamp.parallelize.called
        /\ clamp.parallelize.num_tasks = clamp.num_tasks
        /\ w \in {clamp.num_tasks, clamp.threads, 65535}
        /\ w <= clamp.num_tasks
        /\ w <= clamp.threads
        /\ w <= 65535

C18_Witness ==
  /\ clamp.stage = "done"
  /\ clamp.num_tasks = 2 * Uint16Max
  /\ clamp.threads = Uint16Max + 1
  /\ clamp.parallelize.called
  /\ clamp.parallelize.num_workers = Uint16Max


\* the product of the three dimensions as a natural number (192 bits hold
\* the product of three 64-bit values)
Product(dims) == MulBits(MulBits(dims[1], dims[2], 192), dims[3], 192)

\* C19 as stated: for all unsigned 64-bit dimensions the task count of a
\* launch on a pool, and the one a parallel task recomputes, is the
\* mathematical product x*y*z; the fatal check fires only when some
\* dimension is 0 and the inline path is taken only for the grid (1,1,1).
C19_Original ==
  /\ grid.stage # "none" =>
       /\ grid.num_tasks = Product(grid.thread_dims)
       /\ grid.branch = "fatal" => \E i \in 1..3 : grid.thread_dims[i] = {}
       /\ grid.branch = "inline" =>
            grid.thread_dims = <<FromNat(1), FromNat(1), FromNat(1)>>
  /\ grid.stage = "task" => grid.task_num_tasks = Product(grid.thread_dims)


\* the argument list the caller of Launch passed: the list itself, or the
\* (opaque, size) pairs of the buffer list in its order
PassedArgs ==
  IF buffers.given
  THEN [i \in 1..Len(buffers.list) |->
          <<buffers.list[i].opaque, buffers.list[i].size>>]
  ELSE args

\* C20: every call frame of a launch, on the synchronous, the inline and
\* the parallel path, carries the grid dimensions and the argument list
\* (count, pointers, sizes, order) as passed to Launch and a coordinate
\* inside the grid; two frames of the launch differ in nothing but the
\* coordinate.
C20_CallFrame ==
  /\ \A i \in 1..Len(calls) :
       /\ calls[i].thread_dims = thread_dims
       /\ Len(calls[i].args) = Len(PassedArgs)
       /\ calls[i].args = PassedArgs
       /\ \A c \in 1..3 : calls[i].thread[c] < thread_dims[c]
  /\ \A i, j \in 1..Len(calls) :
       /\ calls[i].thread_dims = calls[j].thread_dims
       /\ calls[i].args = calls[j].args

C20_Witness ==
  /\ withPool
  /\ parallelize.called
  /\ buffers.given
  /\ Len(calls) >= 2
  /\ calls[1].thread # calls[2].thread
  /\ calls[2].args = <<<<"buf2", 32>>, <<"buf3", 4>>>>

====
